---- MODULE Spec2Model ----
(***************************************************************************)
(* cabbage: a transparent RESP2 proxy.                                     *)
(*                                                                         *)
(* The model covers one client connection:                                 *)
(*   - Resp2Backend (service.rs): the handle (poll_ready, call) and the    *)
(*     background worker backend_task that owns the backend transport;     *)
(*   - ProxyLogger (middleware.rs): the logging decorator around it;       *)
(*   - handle_connection (proxy.rs): the client read loop and the          *)
(*     forwarder task that flattens the response streams onto the client.  *)
(*                                                                         *)
(* Two callers drive the pipeline ProxyLogger<Resp2Backend>:               *)
(*   Spec        handle_connection, as assembled by the binary;            *)
(*   SpecBackend an arbitrary caller of the Service contract, which may    *)
(*               poll readiness, submit, pull from or drop any response    *)
(*               stream it holds, and drop the handle.                     *)
(*                                                                         *)
(* A response stream is identified by the number of the submit that        *)
(* created it (1, 2, ...).  Frames emitted by the backend are numbered in  *)
(* emission order, so every frame is distinguishable from every other.     *)
(***************************************************************************)
EXTENDS Integers, Sequences, FiniteSets, TLC

\* ---------------------------------------------------------------- bounds
\* Number of submits on the connection.
MaxReq == 2
\* Number of frames the backend emits on the connection.
MaxEmit == 3
\* Queue capacities; the source sets each of them to 100 (service.rs:17,
\* service.rs:18, proxy.rs:10); the model scales them down so that full
\* queues are reached.
MAX_OUTSTANDING_RESPONSE_STREAM_MESSAGES == 1
MAX_OUTSTANDING_REQUEST_MESSAGES == 1
MAX_OUTSTANDING_RESPONSE_STREAMS == 1
\* Number of client connections the listener accepts.
MaxConn == 4

Sids == 1..MaxReq
Frames == 1..MaxEmit

\* The request frames a client sends; DOC_REQUEST stands for the array
\* [COMMAND, DOCS].
DOC_REQUEST == "COMMAND DOCS"
ReqFrames == {"PING", DOC_REQUEST}

VARIABLES
    \* --- Resp2Backend handle and its channels
    handle_alive,        \* the Resp2Backend (request_sender) is not dropped
    backend_running,     \* Arc<AtomicBool>
    request_queue,       \* mpsc channel of Message::Request, as stream ids
    request_receiver_alive,
    request_frame,       \* stream id -> frame of its RequestMessage
    call_state,          \* stream id -> "none" | "pending" | "ok" | "err"
    delivered,           \* stream id -> frames ever sent into its channel
    n_pulled,            \* stream id -> frames taken out of its channel
    tx_alive,            \* stream id -> response_sender not dropped
    rx_alive,            \* stream id -> response_receiver not dropped
    \* --- backend_task
    wpc,                 \* "spawned" | "select" | "write" | "deliver" | "exiting" | "dead"
    current_response_sender,  \* 0 (None) or a stream id
    wframe,              \* frame held by a suspended send, 0 if none
    last_accepted,       \* number of requests the worker took from the queue
    \* --- backend transport
    target_state,        \* "open" | "closed"
    pipe,                \* frames emitted by the backend, not yet read
    emitted,             \* number of frames emitted
    written,             \* stream ids whose request frame was written
    emit_epoch,          \* frame -> Len(written) when it was emitted
    read_epoch,          \* frame -> last_accepted when it was read, -1 unread
    stray,               \* frames logged as having no request
    \* --- ProxyLogger
    request_count,
    response_count,
    is_doc_command,      \* stream id -> captured by the inspect closure
    log_out,             \* "Client -> Target" lines of the decorator
    log_in,              \* "Target -> Client" lines of the decorator
    yielded,             \* stream id -> frames yielded by the decorated stream
    \* --- generic caller (SpecBackend)
    last_ready,          \* "none" | "ok" | "err": result of the last poll_ready
    issued_flag,         \* stream id -> backend_running when call was issued
    issued_rx,           \* stream id -> request_receiver_alive at that time
    serial,              \* the caller has used the handle serially so far
    \* --- handle_connection (Spec)
    hcpc,                \* "read" | "call" | "fwd_send" | "join" | "done"
    client_left,         \* frames the client will still send
    client_state,        \* "open" | "eof" | "err"
    client_sink_ok,      \* writes to the client succeed
    fwd_queue,           \* mpsc channel of response streams
    fwd_tx_alive,
    fwd_rx_alive,
    fpc,                 \* "recv" | "drain" | "done"
    fcur,                \* stream the forwarder is draining, 0 if none
    client_out,          \* <<stream id, frame>> written to the client
    \* --- serve (SpecServe)
    serve_pc,            \* "accept" | "make" | "returned"
    conns,               \* accepted connection -> "making" | "failed" | "running" | "closed"
    serve_errors         \* connections logged as "Failed to create service"

backendVars == <<handle_alive, backend_running, request_queue,
                 request_receiver_alive, request_frame, call_state,
                 delivered, n_pulled, tx_alive, rx_alive>>
workerVars == <<wpc, current_response_sender, wframe, last_accepted>>
targetVars == <<target_state, pipe, emitted, written, emit_epoch,
                read_epoch, stray>>
loggerVars == <<request_count, response_count, is_doc_command, log_out,
               log_in, yielded>>
callerVars == <<last_ready, issued_flag, issued_rx, serial>>
hcVars == <<hcpc, client_left, client_state, client_sink_ok, fwd_queue,
            fwd_tx_alive, fwd_rx_alive, fpc, fcur, client_out>>
serveVars == <<serve_pc, conns, serve_errors>>
vars == <<backendVars, workerVars, targetVars, loggerVars, callerVars, hcVars,
          serveVars>>

\* ------------------------------------------------------------- helpers
\* Frames buffered in the response channel of stream s.
Buf(s) == SubSeq(delivered[s], n_pulled[s] + 1, Len(delivered[s]))

\* The receiver of stream s would see end-of-stream.
StreamEnded(s) == Buf(s) = <<>> /\ ~tx_alive[s]

Range(q) == {q[i] : i \in 1..Len(q)}

\* ------------------------------------------------------------------ Init
\* Resp2Backend::new has run: channel created, flag true, worker spawned.
Init ==
    /\ handle_alive = TRUE
    /\ backend_running = TRUE
    /\ request_queue = <<>>
    /\ request_receiver_alive = TRUE
    /\ request_frame = [s \in Sids |-> "none"]
    /\ call_state = [s \in Sids |-> "none"]
    /\ delivered = [s \in Sids |-> <<>>]
    /\ n_pulled = [s \in Sids |-> 0]
    /\ tx_alive = [s \in Sids |-> FALSE]
    /\ rx_alive = [s \in Sids |-> FALSE]
    /\ wpc = "spawned"
    /\ current_response_sender = 0
    /\ wframe = 0
    /\ last_accepted = 0
    /\ target_state = "open"
    /\ pipe = <<>>
    /\ emitted = 0
    /\ written = <<>>
    /\ emit_epoch = [f \in Frames |-> -1]
    /\ read_epoch = [f \in Frames |-> -1]
    /\ stray = {}
    /\ request_count = 0
    /\ response_count = 0
    /\ is_doc_command = [s \in Sids |-> FALSE]
    /\ log_out = <<>>
    /\ log_in = <<>>
    /\ yielded = [s \in Sids |-> <<>>]
    /\ last_ready = "none"
    /\ issued_flag = [s \in Sids |-> TRUE]
    /\ issued_rx = [s \in Sids |-> TRUE]
    /\ serial = TRUE
    /\ hcpc = "read"
    /\ client_left = MaxReq
    /\ client_state = "open"
    /\ client_sink_ok = TRUE
    /\ fwd_queue = <<>>
    /\ fwd_tx_alive = TRUE
    /\ fwd_rx_alive = TRUE
    /\ fpc = "recv"
    /\ fcur = 0
    /\ client_out = <<>>
    /\ serve_pc = "accept"
    /\ conns = <<>>
    /\ serve_errors = <<>>


\* ------------------------------------------------- Resp2Backend handle
\* Variant: readiness does not consult the flag.
PollReadyAlways(flag) == "ok"

\* Resp2Backend::poll_ready: an error once the flag reads false.
PollReady(flag) == IF ~flag THEN "err" ELSE "ok"

\* Variant: try_send; a full queue is reported as an error.
SendOutcomeTry(qlen, receiver_alive) ==
    IF ~receiver_alive THEN "err"
    ELSE IF qlen < MAX_OUTSTANDING_REQUEST_MESSAGES THEN "ok"
    ELSE "err"

\* Variant: the send does not notice that the receiver is gone.
SendOutcomeBlind(qlen, receiver_alive) ==
    IF qlen < MAX_OUTSTANDING_REQUEST_MESSAGES THEN "ok" ELSE "pending"

\* One poll of request_sender.send(..) on the bounded request channel:
\* an error when the receiver is gone, suspension when the queue is full.
SendOutcome(qlen, receiver_alive) ==
    IF ~receiver_alive THEN "err"
    ELSE IF qlen < MAX_OUTSTANDING_REQUEST_MESSAGES THEN "ok"
    ELSE "pending"

\* ---------------------------------------------------------- ProxyLogger
\* The decorator's future: map_ok wraps the stream, map_err converts the
\* error; the outcome of the inner future is kept.
LoggerResult(inner) == inner

IsDocCommand(frame) == frame = DOC_REQUEST

\* "Client -> Target: conn=.. req#n cmd=id - frame"
OutboundLine(n, id, frame) ==
    [dir |-> "out", n |-> n, cmd |-> id, body |-> <<"request", frame>>]

\* Variant: the payload is logged whatever the request was.
InboundBodyAlways(is_doc, f) == <<"frame", f>>

\* The text after "cmd=id - " of a "Target -> Client" line.
InboundBody(is_doc, f) == IF is_doc THEN <<"docs">> ELSE <<"frame", f>>

\* Variant: the value fetch_add returns is logged as it is.
InboundLineFromZero(n, id, is_doc, f) ==
    [dir |-> "in", n |-> n - 1, cmd |-> id, body |-> InboundBody(is_doc, f)]

\* "Target -> Client: conn=.. resp#n cmd=id - .."
InboundLine(n, id, is_doc, f) ==
    [dir |-> "in", n |-> n, cmd |-> id, body |-> InboundBody(is_doc, f)]

\* Variant: the decorated stream yields each frame but the first of the
\* backend, replaced by its predecessor.
InspectStale(f) == IF f > 1 THEN f - 1 ELSE f

\* StreamExt::inspect hands the item on after the closure has seen it.
Inspect(f) == f

\* service.call(frame) on ProxyLogger<Resp2Backend>, up to the first poll
\* of the returned future.  The request number doubles as the stream id
\* and as the per-request command id (a fresh Uuid in the source).
ServiceCall(frame) ==
    LET s == request_count + 1
        out == SendOutcome(Len(request_queue), request_receiver_alive)
    IN  /\ request_count < MaxReq
        /\ request_count' = s
        /\ is_doc_command' = [is_doc_command EXCEPT ![s] = IsDocCommand(frame)]
        /\ log_out' = Append(log_out, OutboundLine(s, s, frame))
        /\ request_frame' = [request_frame EXCEPT ![s] = frame]
        /\ call_state' = [call_state EXCEPT ![s] = out]
        /\ request_queue' = IF out = "ok" THEN Append(request_queue, s)
                            ELSE request_queue
        /\ tx_alive' = [tx_alive EXCEPT ![s] = (out # "err")]
        /\ rx_alive' = [rx_alive EXCEPT ![s] = (out # "err")]
        /\ issued_flag' = [issued_flag EXCEPT ![s] = backend_running]
        /\ issued_rx' = [issued_rx EXCEPT ![s] = request_receiver_alive]
        /\ UNCHANGED <<response_count, log_in, yielded, delivered, n_pulled>>

SomePending == \E s \in Sids : call_state[s] = "pending"

\* A suspended send is polled again and completes.
SendResume ==
    \E s \in Sids :
        LET out == SendOutcome(Len(request_queue), request_receiver_alive)
        IN  /\ call_state[s] = "pending"
            /\ out # "pending"
            /\ call_state' = [call_state EXCEPT ![s] = out]
            /\ request_queue' = IF out = "ok" THEN Append(request_queue, s)
                                ELSE request_queue
            /\ tx_alive' = [tx_alive EXCEPT ![s] = (out # "err")]
            /\ rx_alive' = [rx_alive EXCEPT ![s] = (out # "err")]

\* The result the caller of the decorated stage has in hand for submit s.
OuterState(s) == LoggerResult(call_state[s])

\* poll_next on the decorated stream of s, yielding a frame.  The caller
\* decides what becomes of rx_alive.
StreamNext(s) ==
    /\ s \in Sids
    /\ rx_alive[s]
    /\ Buf(s) # <<>>
    /\ LET f == Head(Buf(s))
           n == response_count + 1
       IN  /\ n_pulled' = [n_pulled EXCEPT ![s] = @ + 1]
           /\ response_count' = n
           /\ log_in' = Append(log_in, InboundLine(n, s, is_doc_command[s], f))
           /\ yielded' = [yielded EXCEPT ![s] = Append(@, Inspect(f))]

\* --------------------------------------------------------- backend_task
\* One poll of sender.send(frame) on a bounded response channel.
ResponseSendOutcome(buflen, receiver_alive) ==
    IF ~receiver_alive THEN "err"
    ELSE IF buflen < MAX_OUTSTANDING_RESPONSE_STREAM_MESSAGES THEN "ok"
    ELSE "pending"

\* Variant: a request that arrives while one is outstanding does not
\* replace the delivery channel.
KeepResponseSender(cur, new) == IF cur # 0 THEN cur ELSE new

\* current_response_sender = Some(response_sender)
NextResponseSender(cur, new) == new

\* backend_running.store(true) at the start of the task.
WorkerStart ==
    /\ wpc = "spawned"
    /\ wpc' = "select"
    /\ backend_running' = TRUE
    /\ UNCHANGED <<handle_alive, request_queue, request_receiver_alive,
                   request_frame, call_state, delivered, n_pulled, tx_alive,
                   rx_alive, current_response_sender, wframe, last_accepted,
                   targetVars, loggerVars, callerVars, hcVars>>
    /\ UNCHANGED serveVars

\* select: request_receiver.recv() yields a request.  The previous
\* sender, if any, is dropped before the frame is written.
WorkerRecvRequest ==
    /\ wpc = "select"
    /\ request_queue # <<>>
    /\ LET s == Head(request_queue)
           cur == current_response_sender
           new == NextResponseSender(cur, s)
       IN  /\ request_queue' = Tail(request_queue)
           /\ current_response_sender' = new
           /\ tx_alive' = [t \in Sids |->
                             IF t \in {cur, s} THEN t = new ELSE tx_alive[t]]
           /\ last_accepted' = s
    /\ wpc' = "write"
    /\ UNCHANGED <<handle_alive, backend_running, request_receiver_alive,
                   request_frame, call_state, delivered, n_pulled, rx_alive,
                   wframe, targetVars, loggerVars, callerVars, hcVars>>
    /\ UNCHANGED serveVars

\* sender.send(frame).await on the backend transport succeeds.
WorkerWriteOk ==
    /\ wpc = "write"
    /\ written' = Append(written, last_accepted)
    /\ wpc' = "select"
    /\ UNCHANGED <<backendVars, current_response_sender, wframe,
                   last_accepted, target_state, pipe, emitted, emit_epoch,
                   read_epoch, stray, loggerVars, callerVars, hcVars>>
    /\ UNCHANGED serveVars

\* Variant: the failure is logged and the loop goes on.
WorkerContinue ==
    /\ backend_running' = backend_running
    /\ wpc' = "select"

\* Variant: the loop is left without the store to the flag.
WorkerBreakFlagKept ==
    /\ backend_running' = backend_running
    /\ wpc' = "exiting"

\* The loop is left: backend_running.store(false).
WorkerBreak ==
    /\ backend_running' = FALSE
    /\ wpc' = "exiting"

\* The write fails: log and break.
WorkerWriteFail ==
    /\ wpc = "write"
    /\ target_state # "open"
    /\ WorkerBreak
    /\ UNCHANGED <<handle_alive, request_queue, request_receiver_alive,
                   request_frame, call_state, delivered, n_pulled, tx_alive,
                   rx_alive, current_response_sender, wframe, last_accepted,
                   targetVars, loggerVars, callerVars, hcVars>>
    /\ UNCHANGED serveVars

\* select: recv() yields None, every sender of the request channel is gone.
WorkerQueueClosed ==
    /\ wpc = "select"
    /\ request_queue = <<>>
    /\ ~handle_alive
    /\ ~SomePending
    /\ WorkerBreak
    /\ UNCHANGED <<handle_alive, request_queue, request_receiver_alive,
                   request_frame, call_state, delivered, n_pulled, tx_alive,
                   rx_alive, current_response_sender, wframe, last_accepted,
                   targetVars, loggerVars, callerVars, hcVars>>
    /\ UNCHANGED serveVars

\* Variant: a failed send discards the frame but keeps the sender.
WorkerSendKeepSender(f, resume_pc) ==
    LET cur == current_response_sender
        out == ResponseSendOutcome(Len(Buf(cur)), rx_alive[cur])
    IN  /\ delivered' = IF out = "ok"
                        THEN [delivered EXCEPT ![cur] = Append(@, f)]
                        ELSE delivered
        /\ tx_alive' = tx_alive
        /\ current_response_sender' = cur
        /\ wframe' = IF out = "pending" THEN f ELSE 0
        /\ wpc' = IF out = "pending" THEN "deliver" ELSE resume_pc

\* Variant: best-effort delivery; a frame that finds the channel full is
\* discarded instead of being held until there is room.
WorkerSendBestEffort(f, resume_pc) ==
    LET cur == current_response_sender
        out == ResponseSendOutcome(Len(Buf(cur)), rx_alive[cur])
    IN  /\ delivered' = IF out = "ok"
                        THEN [delivered EXCEPT ![cur] = Append(@, f)]
                        ELSE delivered
        /\ tx_alive' = IF out = "err" THEN [tx_alive EXCEPT ![cur] = FALSE]
                       ELSE tx_alive
        /\ current_response_sender' = IF out = "err" THEN 0 ELSE cur
        /\ wframe' = 0
        /\ wpc' = resume_pc

\* The worker hands frame f to the current response channel.
WorkerSend(f, resume_pc) ==
    LET cur == current_response_sender
        out == ResponseSendOutcome(Len(Buf(cur)), rx_alive[cur])
    IN  /\ delivered' = IF out = "ok"
                        THEN [delivered EXCEPT ![cur] = Append(@, f)]
                        ELSE delivered
        /\ tx_alive' = IF out = "err" THEN [tx_alive EXCEPT ![cur] = FALSE]
                       ELSE tx_alive
        /\ current_response_sender' = IF out = "err" THEN 0 ELSE cur
        /\ wframe' = IF out = "pending" THEN f ELSE 0
        /\ wpc' = IF out = "pending" THEN "deliver" ELSE resume_pc

\* Variant: a frame that finds no delivery channel ends the loop.
WorkerReadFrameStrayFatal ==
    /\ wpc = "select"
    /\ pipe # <<>>
    /\ LET f == Head(pipe)
       IN  /\ pipe' = Tail(pipe)
           /\ read_epoch' = [read_epoch EXCEPT ![f] = last_accepted]
           /\ IF current_response_sender = 0
              THEN /\ stray' = stray \cup {f}
                   /\ WorkerBreak
                   /\ UNCHANGED <<delivered, tx_alive,
                                  current_response_sender, wframe>>
              ELSE /\ WorkerSend(f, "select")
                   /\ UNCHANGED <<stray, backend_running>>
    /\ UNCHANGED <<handle_alive, request_queue,
                   request_receiver_alive, request_frame, call_state,
                   n_pulled, rx_alive, last_accepted, target_state, emitted,
                   written, emit_epoch, loggerVars, callerVars, hcVars>>
    /\ UNCHANGED serveVars

\* select: the backend read yields a frame.
WorkerReadFrame ==
    /\ wpc = "select"
    /\ pipe # <<>>
    /\ LET f == Head(pipe)
       IN  /\ pipe' = Tail(pipe)
           /\ read_epoch' = [read_epoch EXCEPT ![f] = last_accepted]
           /\ IF current_response_sender = 0
              THEN /\ stray' = stray \cup {f}
                   /\ UNCHANGED <<delivered, tx_alive,
                                  current_response_sender, wframe, wpc>>
              ELSE /\ WorkerSend(f, "select")
                   /\ UNCHANGED stray
    /\ UNCHANGED <<handle_alive, backend_running, request_queue,
                   request_receiver_alive, request_frame, call_state,
                   n_pulled, rx_alive, last_accepted, target_state, emitted,
                   written, emit_epoch, loggerVars, callerVars, hcVars>>
    /\ UNCHANGED serveVars

\* The send the worker is suspended in completes.
WorkerDeliverResume ==
    /\ wpc = "deliver"
    /\ ResponseSendOutcome(Len(Buf(current_response_sender)),
                           rx_alive[current_response_sender]) # "pending"
    /\ WorkerSend(wframe, "select")
    /\ UNCHANGED <<handle_alive, backend_running, request_queue,
                   request_receiver_alive, request_frame, call_state,
                   n_pulled, rx_alive, last_accepted, targetVars,
                   loggerVars, callerVars, hcVars>>
    /\ UNCHANGED serveVars

\* select: the backend read yields Some(Err(e)) or None (end-of-stream);
\* the two arms differ only in the line they log.
WorkerReadEnd ==
    /\ wpc = "select"
    /\ pipe = <<>>
    /\ target_state = "closed"
    /\ WorkerBreak
    /\ UNCHANGED <<handle_alive, request_queue, request_receiver_alive,
                   request_frame, call_state, delivered, n_pulled, tx_alive,
                   rx_alive, current_response_sender, wframe, last_accepted,
                   targetVars, loggerVars, callerVars, hcVars>>
    /\ UNCHANGED serveVars

\* Variant: the task returns and the messages still queued are not
\* dropped with the receiver; their response senders live on.
WorkerReturnLeavesQueued ==
    /\ wpc = "exiting"
    /\ wpc' = "dead"
    /\ request_receiver_alive' = FALSE
    /\ request_queue' = <<>>
    /\ tx_alive' = [t \in Sids |->
                      IF t = current_response_sender
                      THEN FALSE ELSE tx_alive[t]]
    /\ current_response_sender' = 0
    /\ UNCHANGED <<handle_alive, backend_running, request_frame, call_state,
                   delivered, n_pulled, rx_alive, wframe, last_accepted,
                   targetVars, loggerVars, callerVars, hcVars>>
    /\ UNCHANGED serveVars

\* The task returns: request_receiver, the queued messages and
\* current_response_sender are dropped.
WorkerReturn ==
    /\ wpc = "exiting"
    /\ wpc' = "dead"
    /\ request_receiver_alive' = FALSE
    /\ request_queue' = <<>>
    /\ tx_alive' = [t \in Sids |->
                      IF t \in Range(request_queue) \/ t = current_response_sender
                      THEN FALSE ELSE tx_alive[t]]
    /\ current_response_sender' = 0
    /\ UNCHANGED <<handle_alive, backend_running, request_frame, call_state,
                   delivered, n_pulled, rx_alive, wframe, last_accepted,
                   targetVars, loggerVars, callerVars, hcVars>>
    /\ UNCHANGED serveVars

Worker ==
    \/ WorkerStart
    \/ WorkerRecvRequest
    \/ WorkerWriteOk
    \/ WorkerWriteFail
    \/ WorkerQueueClosed
    \/ WorkerReadFrame
    \/ WorkerDeliverResume
    \/ WorkerReadEnd
    \/ WorkerReturn

\* ----------------------------------------------------- backend transport
\* The backend emits one more frame.  The run stays serial only if the
\* frame answers the one request that is outstanding on a live handle.
BackendEmit ==
    /\ target_state = "open"
    /\ emitted < MaxEmit
    /\ emitted' = emitted + 1
    /\ pipe' = Append(pipe, emitted + 1)
    /\ emit_epoch' = [emit_epoch EXCEPT ![emitted + 1] = Len(written)]
    /\ serial' = (serial /\ handle_alive /\ Len(written) >= 1
                          /\ request_count = Len(written))
    /\ UNCHANGED <<backendVars, workerVars, target_state, written,
                   read_epoch, stray, loggerVars, last_ready, issued_flag,
                   issued_rx, hcVars>>
    /\ UNCHANGED serveVars

\* The backend closes the connection, cleanly or not.
BackendClose ==
    /\ target_state = "open"
    /\ target_state' = "closed"
    /\ UNCHANGED <<backendVars, workerVars, pipe, emitted, written,
                   emit_epoch, read_epoch, stray, loggerVars, callerVars,
                   hcVars>>
    /\ UNCHANGED serveVars

Target == BackendEmit \/ BackendClose

\* ------------------------------------------- a caller of the Service API
\* Everything the backend emitted has reached the caller and every
\* request issued so far has been written.
Quiescent ==
    /\ pipe = <<>>
    /\ wframe = 0
    /\ request_count = Len(written)
    /\ request_count > 0 =>
         /\ rx_alive[request_count]
         /\ n_pulled[request_count] = Len(delivered[request_count])

CallerPollReady ==
    /\ handle_alive
    /\ last_ready' = LoggerResult(PollReady(backend_running))
    /\ last_ready' # last_ready
    /\ UNCHANGED <<backendVars, workerVars, targetVars, loggerVars,
                   issued_flag, issued_rx, serial, hcVars>>
    /\ UNCHANGED serveVars

CallerCall ==
    /\ handle_alive
    /\ ~SomePending
    /\ \E frame \in ReqFrames : ServiceCall(frame)
    /\ serial' = (serial /\ Quiescent)
    /\ UNCHANGED <<handle_alive, backend_running, request_receiver_alive,
                   workerVars, targetVars, last_ready, hcVars>>
    /\ UNCHANGED serveVars

CallerCallResume ==
    /\ SendResume
    /\ UNCHANGED <<handle_alive, backend_running, request_receiver_alive,
                   request_frame, delivered, n_pulled, workerVars,
                   targetVars, loggerVars, callerVars, hcVars>>
    /\ UNCHANGED serveVars

CallerPull ==
    /\ \E s \in Sids : OuterState(s) = "ok" /\ StreamNext(s)
    /\ UNCHANGED <<handle_alive, backend_running, request_queue,
                   request_receiver_alive, request_frame, call_state,
                   delivered, tx_alive, rx_alive, workerVars, targetVars,
                   request_count, is_doc_command, log_out, callerVars,
                   hcVars>>
    /\ UNCHANGED serveVars

CallerDropStream ==
    /\ \E s \in Sids :
         /\ OuterState(s) = "ok"
         /\ rx_alive[s]
         /\ rx_alive' = [rx_alive EXCEPT ![s] = FALSE]
         /\ serial' = (serial /\ s < request_count)
    /\ UNCHANGED <<handle_alive, backend_running, request_queue,
                   request_receiver_alive, request_frame, call_state,
                   delivered, n_pulled, tx_alive, workerVars, targetVars,
                   loggerVars, last_ready, issued_flag, issued_rx, hcVars>>
    /\ UNCHANGED serveVars

CallerDropHandle ==
    /\ handle_alive
    /\ ~SomePending
    /\ handle_alive' = FALSE
    /\ serial' = (serial /\ Quiescent)
    /\ UNCHANGED <<backend_running, request_queue, request_receiver_alive,
                   request_frame, call_state, delivered, n_pulled, tx_alive,
                   rx_alive, workerVars, targetVars, loggerVars, last_ready,
                   issued_flag, issued_rx, hcVars>>
    /\ UNCHANGED serveVars

Caller ==
    \/ CallerPollReady
    \/ CallerCall
    \/ CallerCallResume
    \/ CallerPull
    \/ CallerDropStream
    \/ CallerDropHandle

NextBackend == Caller \/ Worker \/ Target

SpecBackend == Init /\ [][NextBackend]_vars

\* The runtime keeps polling the spawned worker while it can make
\* progress.  The caller is under no obligation to act.
FairBackend == SpecBackend /\ WF_vars(Worker)


\* ---------------------------------------------------- handle_connection
\* Variant: try_send; a full channel of response streams is an error.
ForwardSendOutcomeTry(qlen, receiver_alive) ==
    IF ~receiver_alive THEN "err"
    ELSE IF qlen < MAX_OUTSTANDING_RESPONSE_STREAMS THEN "ok"
    ELSE "err"

\* One poll of response_forwarder_tx.send(stream) on the bounded channel
\* of response streams.
ForwardSendOutcome(qlen, receiver_alive) ==
    IF ~receiver_alive THEN "err"
    ELSE IF qlen < MAX_OUTSTANDING_RESPONSE_STREAMS THEN "ok"
    ELSE "pending"

\* Variant: a failed submit ends the read loop.
AfterCallFatal(result) ==
    CASE result = "ok" -> "fwd_send"
      [] result = "err" -> "join"
      [] OTHER -> "call"

\* Where the read loop stands once service.call(frame).await has the
\* given result: a stream goes on to the forwarder, an error is logged
\* and the loop reads on.
AfterCall(result) ==
    CASE result = "ok" -> "fwd_send"
      [] result = "err" -> "read"
      [] OTHER -> "call"

\* Variant: the forwarder polls whichever response stream has a frame,
\* the one it received last or one still waiting in its channel.
ForwarderAnySource(cur, queue) == {cur} \cup Range(queue)

\* The stream the forwarder polls: the one it received last, until it ends.
ForwarderSource(cur, queue) == {cur}

\* client_stream.next() yields a frame, which is submitted to the pipeline.
HcRead ==
    /\ hcpc = "read"
    /\ client_state = "open"
    /\ client_left > 0
    /\ client_left' = client_left - 1
    /\ \E frame \in ReqFrames : ServiceCall(frame)
    /\ hcpc' = AfterCall(LoggerResult(call_state'[request_count']))
    /\ UNCHANGED <<handle_alive, backend_running, request_receiver_alive,
                   workerVars, targetVars, last_ready, serial, client_state,
                   client_sink_ok, fwd_queue, fwd_tx_alive, fwd_rx_alive,
                   fpc, fcur, client_out>>
    /\ UNCHANGED serveVars

\* The suspended submit completes.
HcCallResume ==
    /\ hcpc = "call"
    /\ SendResume
    /\ hcpc' = AfterCall(LoggerResult(call_state'[request_count]))
    /\ UNCHANGED <<handle_alive, backend_running, request_receiver_alive,
                   request_frame, delivered, n_pulled, workerVars,
                   targetVars, loggerVars, callerVars, client_left,
                   client_state, client_sink_ok, fwd_queue, fwd_tx_alive,
                   fwd_rx_alive, fpc, fcur, client_out>>
    /\ UNCHANGED serveVars

\* response_forwarder_tx.send(response_stream).await completes: the stream
\* is enqueued, or the forwarder is gone and the loop breaks, dropping the
\* stream and response_forwarder_tx.
HcForward ==
    /\ hcpc = "fwd_send"
    /\ LET s == request_count
           out == ForwardSendOutcome(Len(fwd_queue), fwd_rx_alive)
       IN  /\ out # "pending"
           /\ IF out = "ok"
              THEN /\ fwd_queue' = Append(fwd_queue, s)
                   /\ hcpc' = "read"
                   /\ UNCHANGED <<rx_alive, fwd_tx_alive>>
              ELSE /\ rx_alive' = [rx_alive EXCEPT ![s] = FALSE]
                   /\ fwd_tx_alive' = FALSE
                   /\ hcpc' = "join"
                   /\ UNCHANGED fwd_queue
    /\ UNCHANGED <<handle_alive, backend_running, request_queue,
                   request_receiver_alive, request_frame, call_state,
                   delivered, n_pulled, tx_alive, workerVars, targetVars,
                   loggerVars, callerVars, client_left, client_state,
                   client_sink_ok, fwd_rx_alive, fpc, fcur, client_out>>
    /\ UNCHANGED serveVars

\* client_stream.next() yields an error or None: the loop is left and
\* response_forwarder_tx is dropped.
HcClientEnd ==
    /\ hcpc = "read"
    /\ client_state # "open"
    /\ fwd_tx_alive' = FALSE
    /\ hcpc' = "join"
    /\ UNCHANGED <<backendVars, workerVars, targetVars, loggerVars,
                   callerVars, client_left, client_state, client_sink_ok,
                   fwd_queue, fwd_rx_alive, fpc, fcur, client_out>>
    /\ UNCHANGED serveVars

\* forward_task_join_handle.await completes; handle_connection returns and
\* drops the service.
HcJoin ==
    /\ hcpc = "join"
    /\ fpc = "done"
    /\ hcpc' = "done"
    /\ handle_alive' = FALSE
    /\ UNCHANGED <<backend_running, request_queue, request_receiver_alive,
                   request_frame, call_state, delivered, n_pulled, tx_alive,
                   rx_alive, workerVars, targetVars, loggerVars, callerVars,
                   client_left, client_state, client_sink_ok, fwd_queue,
                   fwd_tx_alive, fwd_rx_alive, fpc, fcur, client_out>>
    /\ UNCHANGED serveVars

\* response_forwarder_rx.recv() yields the next response stream.
FwdRecv ==
    /\ fpc = "recv"
    /\ fwd_queue # <<>>
    /\ fcur' = Head(fwd_queue)
    /\ fwd_queue' = Tail(fwd_queue)
    /\ fpc' = "drain"
    /\ UNCHANGED <<backendVars, workerVars, targetVars, loggerVars,
                   callerVars, hcpc, client_left, client_state,
                   client_sink_ok, fwd_tx_alive, fwd_rx_alive, client_out>>
    /\ UNCHANGED serveVars

\* recv() yields None: the task ends.
FwdRecvClosed ==
    /\ fpc = "recv"
    /\ fwd_queue = <<>>
    /\ ~fwd_tx_alive
    /\ fpc' = "done"
    /\ fwd_rx_alive' = FALSE
    /\ UNCHANGED <<backendVars, workerVars, targetVars, loggerVars,
                   callerVars, hcpc, client_left, client_state,
                   client_sink_ok, fwd_queue, fwd_tx_alive, fcur,
                   client_out>>
    /\ UNCHANGED serveVars

\* The polled stream yields a frame and client_sink.send(frame) succeeds.
FwdForward ==
    /\ fpc = "drain"
    /\ client_sink_ok
    /\ \E s \in ForwarderSource(fcur, fwd_queue) :
         /\ StreamNext(s)
         /\ client_out' = Append(client_out, <<s, Inspect(Head(Buf(s)))>>)
    /\ UNCHANGED <<handle_alive, backend_running, request_queue,
                   request_receiver_alive, request_frame, call_state,
                   delivered, tx_alive, rx_alive, workerVars, targetVars,
                   request_count, is_doc_command, log_out, callerVars, hcpc,
                   client_left, client_state, client_sink_ok, fwd_queue,
                   fwd_tx_alive, fwd_rx_alive, fpc, fcur>>
    /\ UNCHANGED serveVars

\* The polled stream yields a frame and client_sink.send(frame) fails: the
\* task returns, dropping the stream, the receiver and the streams in it.
FwdSendFail ==
    /\ fpc = "drain"
    /\ ~client_sink_ok
    /\ StreamNext(fcur)
    /\ rx_alive' = [s \in Sids |->
                      IF s = fcur \/ s \in Range(fwd_queue) THEN FALSE
                      ELSE rx_alive[s]]
    /\ fwd_queue' = <<>>
    /\ fwd_rx_alive' = FALSE
    /\ fcur' = 0
    /\ fpc' = "done"
    /\ UNCHANGED <<handle_alive, backend_running, request_queue,
                   request_receiver_alive, request_frame, call_state,
                   delivered, tx_alive, workerVars, targetVars,
                   request_count, is_doc_command, log_out, callerVars, hcpc,
                   client_left, client_state, client_sink_ok, fwd_tx_alive,
                   client_out>>
    /\ UNCHANGED serveVars

\* The stream being drained ends; it is dropped.
FwdStreamEnd ==
    /\ fpc = "drain"
    /\ StreamEnded(fcur)
    /\ rx_alive' = [rx_alive EXCEPT ![fcur] = FALSE]
    /\ fcur' = 0
    /\ fpc' = "recv"
    /\ UNCHANGED <<handle_alive, backend_running, request_queue,
                   request_receiver_alive, request_frame, call_state,
                   delivered, n_pulled, tx_alive, workerVars, targetVars,
                   loggerVars, callerVars, hcpc, client_left, client_state,
                   client_sink_ok, fwd_queue, fwd_tx_alive, fwd_rx_alive,
                   client_out>>
    /\ UNCHANGED serveVars

\* The client closes its sending side, or the read fails.
ClientClose ==
    /\ client_state = "open"
    /\ client_state' \in {"eof", "err"}
    /\ UNCHANGED <<backendVars, workerVars, targetVars, loggerVars,
                   callerVars, hcpc, client_left, client_sink_ok, fwd_queue,
                   fwd_tx_alive, fwd_rx_alive, fpc, fcur, client_out>>
    /\ UNCHANGED serveVars

\* Writes to the client start to fail.
ClientSinkBreak ==
    /\ client_sink_ok
    /\ client_sink_ok' = FALSE
    /\ UNCHANGED <<backendVars, workerVars, targetVars, loggerVars,
                   callerVars, hcpc, client_left, client_state, fwd_queue,
                   fwd_tx_alive, fwd_rx_alive, fpc, fcur, client_out>>
    /\ UNCHANGED serveVars

ReadLoop == HcRead \/ HcCallResume \/ HcForward \/ HcClientEnd \/ HcJoin

Forwarder == FwdRecv \/ FwdRecvClosed \/ FwdForward \/ FwdSendFail \/ FwdStreamEnd

Client == ClientClose \/ ClientSinkBreak

Next == ReadLoop \/ Forwarder \/ Client \/ Worker \/ Target

Spec == Init /\ [][Next]_vars

\* The runtime keeps polling every spawned task that can make progress:
\* the connection task, the forwarder task and the backend worker.  The
\* client and the backend are under no obligation to act.
FairSpec ==
    /\ Spec
    /\ WF_vars(ReadLoop)
    /\ WF_vars(Forwarder)
    /\ WF_vars(Worker)


\* ------------------------------------------------------------- serve
\* Variant: a factory error is propagated out of serve.
AfterMakeFatal(result) == IF result = "ok" THEN "accept" ELSE "returned"

\* Where serve stands after make_service(client_addr).await: both arms of
\* the match fall through to the next iteration of the loop.
AfterMake(result) == "accept"

\* listenter.accept().await yields a client socket.
ServeAccept ==
    /\ serve_pc = "accept"
    /\ Len(conns) < MaxConn
    /\ conns' = Append(conns, "making")
    /\ serve_pc' = "make"
    /\ UNCHANGED <<backendVars, workerVars, targetVars, loggerVars,
                   callerVars, hcVars, serve_errors>>

\* listenter.accept().await? fails: serve returns the error.
ServeAcceptFail ==
    /\ serve_pc = "accept"
    /\ serve_pc' = "returned"
    /\ UNCHANGED <<backendVars, workerVars, targetVars, loggerVars,
                   callerVars, hcVars, conns, serve_errors>>

\* make_service yields a service: a task running handle_connection is
\* spawned for the client.
ServeMakeOk ==
    /\ serve_pc = "make"
    /\ conns' = [conns EXCEPT ![Len(conns)] = "running"]
    /\ serve_pc' = AfterMake("ok")
    /\ UNCHANGED <<backendVars, workerVars, targetVars, loggerVars,
                   callerVars, hcVars, serve_errors>>

\* make_service fails: the error is logged, nothing is spawned.
ServeMakeErr ==
    /\ serve_pc = "make"
    /\ conns' = [conns EXCEPT ![Len(conns)] = "failed"]
    /\ serve_errors' = Append(serve_errors, Len(conns))
    /\ serve_pc' = AfterMake("err")
    /\ UNCHANGED <<backendVars, workerVars, targetVars, loggerVars,
                   callerVars, hcVars>>

\* A spawned handle_connection task returns.
ConnTaskEnd ==
    /\ \E c \in 1..Len(conns) :
         /\ conns[c] = "running"
         /\ conns' = [conns EXCEPT ![c] = "closed"]
    /\ UNCHANGED <<backendVars, workerVars, targetVars, loggerVars,
                   callerVars, hcVars, serve_pc, serve_errors>>

NextServe ==
    \/ ServeAccept
    \/ ServeAcceptFail
    \/ ServeMakeOk
    \/ ServeMakeErr
    \/ ConnTaskEnd

SpecServe == Init /\ [][NextServe]_vars

\* ======================================================== properties
IsPrefix(a, b) == Len(a) <= Len(b) /\ a = SubSeq(b, 1, Len(a))

Increasing(q) == \A i \in 1..Len(q) : \A j \in 1..Len(q) : i < j => q[i] < q[j]

\* What the receiver of stream s has taken out of the channel.
Pulled(s) == SubSeq(delivered[s], 1, n_pulled[s])

WorkerGone == wpc \in {"exiting", "dead"}

\* C1: while the handle is used serially (a submit is made only once the
\* backend has answered the previous request in full and the caller has
\* pulled that answer), every frame the backend emitted between the write
\* of request K and the write of request K+1 is in the pipe to the worker,
\* held by the worker, or in stream K; stream K holds only such frames, in
\* emission order, and no frame twice.
C1_SerialStreamsCarryTheirResponses ==
    serial =>
      /\ \A f \in 1..emitted :
           /\ emit_epoch[f] \in Sids
           /\ \/ f \in Range(pipe) /\ ~WorkerGone
              \/ f = wframe /\ current_response_sender = emit_epoch[f]
              \/ f \in Range(delivered[emit_epoch[f]])
      /\ \A s \in Sids :
           /\ \A i \in 1..Len(delivered[s]) : emit_epoch[delivered[s][i]] = s
           /\ Increasing(delivered[s])
           /\ yielded[s] = Pulled(s)

\* C1 witness: two serial requests, the first answered by two frames and
\* the second by one, all pulled by the caller.
C1_Witness ==
    /\ serial
    /\ Len(written) = 2
    /\ Pulled(1) = <<1, 2>>
    /\ Pulled(2) = <<3>>

\* C2: a frame the worker read after it accepted request N+1 is sent to
\* stream N+1, never to stream N: every frame in a channel, or held for
\* one, was read while that channel's request was the last one accepted,
\* and the sender of every superseded request is dropped.
C2_NewRequestSupersedes ==
    /\ \A s \in Sids : \A i \in 1..Len(delivered[s]) :
           read_epoch[delivered[s][i]] = s
    /\ wframe # 0 => read_epoch[wframe] = current_response_sender
    /\ \A s \in Sids : s < last_accepted => ~tx_alive[s]
    /\ current_response_sender \in {0, last_accepted}

\* C2 witness: request 2 was submitted while stream 1 was still open, and
\* a frame the backend emitted before request 2 was written has been
\* delivered to stream 2.
C2_Witness ==
    /\ rx_alive[1]
    /\ \E f \in Range(delivered[2]) : emit_epoch[f] = 1


\* The frames of stream s among the first n entries written to the client.
RECURSIVE ClientFrames(_, _)
ClientFrames(s, n) ==
    IF n = 0 THEN <<>>
    ELSE IF client_out[n][1] = s
         THEN Append(ClientFrames(s, n - 1), client_out[n][2])
         ELSE ClientFrames(s, n - 1)

\* C3: the client sees the response streams in submission order and never
\* interleaved: the stream ids of the frames written to the client never
\* decrease, and when a frame of stream t is written, every earlier stream
\* has ended and all frames ever sent into it were written before.
C3_ClientSeesStreamsInOrder ==
    \A i \in 1..Len(client_out) :
        LET t == client_out[i][1]
        IN  /\ i > 1 => client_out[i - 1][1] <= t
            /\ \A s \in Sids :
                 (s < t /\ call_state[s] = "ok") =>
                    /\ ~tx_alive[s]
                    /\ ClientFrames(s, i - 1) = delivered[s]

\* C3 witness: two frames of stream 1, then a frame of stream 2, have been
\* written to the client.
C3_Witness ==
    /\ Len(client_out) = 3
    /\ client_out[1][1] = 1
    /\ client_out[2][1] = 1
    /\ client_out[3][1] = 2

\* C4: once the client read half has reported an error or end-of-stream,
\* handle_connection eventually returns.
C4_ReturnsAfterClientEnd == (client_state # "open") ~> (hcpc = "done")


WorkerRunning == wpc \in {"spawned", "select", "write", "deliver"}

\* C5 as stated: a submit issued once the liveness flag is false fails at
\* once and returns no response stream.
C5_CallFailsOnceFlagIsFalse ==
    \A s \in Sids :
        (call_state[s] # "none" /\ ~issued_flag[s]) =>
            (call_state[s] = "err" /\ ~rx_alive[s])

\* C5 amended: when the worker leaves its loop (as it does when the backend
\* read returns end-of-stream) the flag becomes false; once the task has
\* returned, the request receiver is dropped, and a submit issued after
\* that fails at once: it is never suspended, never enqueued, and returns
\* no response stream.
C5_CallFailsOnceWorkerReturned ==
    /\ [](/\ WorkerGone <=> ~backend_running
          /\ wpc = "dead" <=> ~request_receiver_alive
          /\ \A s \in Sids :
               (call_state[s] # "none" /\ ~issued_rx[s]) =>
                  /\ call_state[s] = "err"
                  /\ ~rx_alive[s] /\ ~tx_alive[s]
                  /\ s > last_accepted)
    /\ [][(wpc = "select" /\ target_state = "closed" /\ pipe = <<>>
           /\ request_queue = <<>> /\ wpc' # wpc)
             => (wpc' = "exiting" /\ ~backend_running')]_vars

\* C5 witness: the backend closed before any request, the worker read the
\* end-of-stream and returned, and a submit made after that failed.
C5_Witness ==
    /\ wpc = "dead"
    /\ target_state = "closed"
    /\ handle_alive
    /\ last_accepted = 0
    /\ ~issued_rx[1]
    /\ call_state[1] = "err"

\* Frame f was read for stream read_epoch[f] and discarded by a failed send.
Discarded(f) ==
    /\ read_epoch[f] \in Sids
    /\ f \notin Range(delivered[read_epoch[f]])
    /\ f # wframe
    /\ f \notin stray

\* C6: a send that fails because the receiver of the current stream was
\* dropped clears the current delivery channel and leaves the worker in
\* its loop with the liveness flag unchanged.
C6_DroppedStreamIsAbandoned ==
    /\ [](\A f \in Frames :
            Discarded(f) =>
               /\ ~rx_alive[read_epoch[f]]
               /\ ~tx_alive[read_epoch[f]]
               /\ current_response_sender # read_epoch[f])
    /\ [][(current_response_sender # 0 /\ current_response_sender' = 0
           /\ wpc' # "dead")
             => /\ ~rx_alive[current_response_sender]
                /\ wpc' = "select"
                /\ wframe' = 0
                /\ backend_running' = backend_running]_vars

\* C6 witness: stream 1 was dropped undrained and a frame for it was
\* discarded; the worker is still running, request 2 was written and its
\* stream has yielded a frame the backend emitted after that write.
C6_Witness ==
    /\ backend_running
    /\ WorkerRunning
    /\ \E f \in Frames : Discarded(f) /\ read_epoch[f] = 1
    /\ Len(written) = 2
    /\ \E g \in Range(yielded[2]) : emit_epoch[g] = 2

\* C7: the decorated stream of every submit yields exactly the frames
\* taken out of the inner stream, in the same order, one per pull, and the
\* decorated submit has the outcome of the inner submit.
C7_LoggerIsTransparent ==
    \A s \in Sids :
        /\ yielded[s] = Pulled(s)
        /\ OuterState(s) = call_state[s]
        /\ n_pulled[s] > 0 => call_state[s] = "ok"

\* C7 witness: a decorated stream has yielded two frames.
C7_Witness == \E s \in Sids : Len(yielded[s]) = 2 /\ yielded[s] = Pulled(s)

\* The number of the first i inbound lines that belong to stream s.
InboundOf(s, i) == Cardinality({j \in 1..i : log_in[j].cmd = s})

\* C8: the inbound line of a frame answering COMMAND DOCS carries the
\* placeholder and not the frame; the inbound line of any other frame
\* carries the frame; and the response counter grows by one per frame.
C8_DocsPayloadIsNotLogged ==
    /\ response_count = Len(log_in)
    /\ \A i \in 1..Len(log_in) :
         LET e == log_in[i]
             f == yielded[e.cmd][InboundOf(e.cmd, i)]
         IN  /\ e.n = i
             /\ IF request_frame[e.cmd] = DOC_REQUEST
                THEN e.body = <<"docs">> /\ e.body # <<"frame", f>>
                ELSE e.body = <<"frame", f>>

\* C8 witness: frames of a COMMAND DOCS response and of another response
\* have been logged.
C8_Witness ==
    /\ \E i \in 1..Len(log_in) : request_frame[log_in[i].cmd] = DOC_REQUEST
    /\ \E i \in 1..Len(log_in) : request_frame[log_in[i].cmd] = "PING"

\* C9: poll_ready returns Ok exactly while the worker is in its loop, and
\* the failure is permanent: the flag never returns to true and an error
\* is never followed by Ok.
C9_NotReadyIsPermanent ==
    [][/\ ~backend_running => ~backend_running'
       /\ last_ready = "err" => last_ready' = "err"
       /\ last_ready' # last_ready =>
            (last_ready' = "ok" <=> WorkerRunning)]_vars

\* C9 witness: poll_ready has returned an error after the worker ended.
C9_Witness == last_ready = "err" /\ wpc = "dead" /\ handle_alive

\* C10: a submit fails only when the request receiver is gone; on a full
\* queue it stays suspended, and it returns a stream only once its
\* request is in the queue.
C10_SubmitFailsOnlyWhenReceiverGone ==
    /\ [](\A s \in Sids :
            /\ call_state[s] = "err" => ~request_receiver_alive
            /\ call_state[s] = "pending" =>
                 \/ Len(request_queue) = MAX_OUTSTANDING_REQUEST_MESSAGES
                 \/ ~request_receiver_alive
                 \/ ENABLED SendResume)
    /\ [][\A s \in Sids :
            (call_state[s] # "ok" /\ call_state'[s] = "ok") =>
                /\ request_receiver_alive
                /\ request_queue' = Append(request_queue, s)]_vars

\* C10 witness: a submit is suspended on a full request queue whose
\* receiver is alive.
C10_Witness ==
    /\ request_receiver_alive
    /\ Len(request_queue) = MAX_OUTSTANDING_REQUEST_MESSAGES
    /\ \E s \in Sids : call_state[s] = "pending"


C12_FactoryFailureKeepsAccepting ==
    /\ [](\A c \in 1..Len(conns) :
            conns[c] = "failed" <=> c \in Range(serve_errors))
    /\ [][/\ \A c \in 1..Len(conns) :
               /\ (conns[c] = "making" /\ conns'[c] = "failed") =>
                     /\ serve_pc' = "accept"
                     /\ serve_errors' = Append(serve_errors, c)
               /\ conns[c] = "failed" => conns'[c] = "failed"
           /\ (serve_pc # "returned" /\ serve_pc' = "returned") =>
                 serve_pc = "accept"]_vars

\* C12 witness: the factory failed for the first client and a task runs
\* for the second.
C12_Witness ==
    /\ Len(conns) >= 2
    /\ conns[1] = "failed"
    /\ conns[2] = "running"

\* C13: when the submit of a client frame fails, the read loop is back at
\* the read of the next client frame: no response stream is enqueued for
\* the failed frame (none reaches the forwarder or the client), the
\* channel to the forwarder and the client connection are kept, and a
\* client frame that arrives next is read and submitted.
C13_SubmitFailureKeepsReadLoop ==
    /\ [](\A s \in Sids : call_state[s] = "err" =>
            /\ ~rx_alive[s]
            /\ s \notin Range(fwd_queue)
            /\ fcur # s
            /\ \A i \in 1..Len(client_out) : client_out[i][1] # s)
    /\ []((/\ hcpc = "read"
           /\ request_count > 0
           /\ call_state[request_count] = "err"
           /\ client_state = "open"
           /\ client_left > 0) => ENABLED HcRead)
    /\ [][\A s \in Sids :
            (call_state[s] # "err" /\ call_state'[s] = "err") =>
               /\ hcpc' = "read"
               /\ fwd_queue' = fwd_queue
               /\ fwd_tx_alive' = fwd_tx_alive
               /\ fwd_tx_alive
               /\ client_state' = client_state]_vars

\* C13 witness: the first submit failed and a second client frame was
\* submitted on the same connection.
C13_Witness ==
    /\ call_state[1] = "err"
    /\ request_count = 2
    /\ fwd_tx_alive
    /\ client_state = "open"

\* C14: the request queue, every response channel and the queue of
\* response streams never hold more than their capacity.  A producer
\* suspended on a full queue keeps its item, which enters the queue when
\* the send completes; a send fails only when the receiver is gone.
C14_QueuesBoundedProducersSuspend ==
    /\ [](/\ Len(request_queue) <= MAX_OUTSTANDING_REQUEST_MESSAGES
          /\ \A s \in Sids :
               Len(Buf(s)) <= MAX_OUTSTANDING_RESPONSE_STREAM_MESSAGES
          /\ Len(fwd_queue) <= MAX_OUTSTANDING_RESPONSE_STREAMS)
    /\ [](/\ \A s \in Sids : call_state[s] = "pending" =>
               s \notin Range(request_queue) /\ s > last_accepted
          /\ wpc = "deliver" =>
               /\ wframe # 0
               /\ wframe \notin stray
               /\ \A s \in Sids : wframe \notin Range(delivered[s])
          /\ hcpc = "fwd_send" =>
               /\ rx_alive[request_count]
               /\ request_count \notin Range(fwd_queue))
    /\ [][/\ \A s \in Sids :
              /\ (call_state[s] # "err" /\ call_state'[s] = "err") =>
                    ~request_receiver_alive
              /\ (call_state[s] = "pending" /\ call_state'[s] = "ok") =>
                    request_queue' = Append(request_queue, s)
          /\ (wpc = "deliver" /\ wpc' # "deliver") =>
                (\/ delivered'[current_response_sender] =
                       Append(delivered[current_response_sender], wframe)
                 \/ ~rx_alive[current_response_sender])
          /\ (/\ current_response_sender # 0
              /\ current_response_sender' = 0
              /\ wpc' # "dead") => ~rx_alive[current_response_sender]
          /\ (hcpc = "fwd_send" /\ hcpc' = "read") =>
                fwd_queue' = Append(fwd_queue, request_count)
          /\ (hcpc = "fwd_send" /\ hcpc' = "join") => ~fwd_rx_alive]_vars

\* C14 witness: the three queues are full; the worker is suspended on the
\* response channel and the read loop on the queue of response streams,
\* both with a live receiver.
C14_Witness ==
    /\ Len(request_queue) = MAX_OUTSTANDING_REQUEST_MESSAGES
    /\ wpc = "deliver"
    /\ rx_alive[current_response_sender]
    /\ Len(Buf(current_response_sender)) =
          MAX_OUTSTANDING_RESPONSE_STREAM_MESSAGES
    /\ hcpc = "fwd_send"
    /\ fwd_rx_alive
    /\ Len(fwd_queue) = MAX_OUTSTANDING_RESPONSE_STREAMS

\* The worker is suspended in a send to a response channel that is full
\* and whose receiver is alive.
SuspendedOnLiveChannel ==
    /\ wpc = "deliver"
    /\ rx_alive[current_response_sender]
    /\ Len(Buf(current_response_sender)) >=
          MAX_OUTSTANDING_RESPONSE_STREAM_MESSAGES

WorkerTerminated == wpc = "dead" /\ ~backend_running

\* C15 as stated: once the handle is dropped or the backend connection
\* has ended, the worker eventually terminates with the flag false, in
\* whatever state it is.
C15_WorkerTerminatesInEveryState ==
    (~handle_alive \/ target_state = "closed") ~> WorkerTerminated

\* C15, amended: once the handle is dropped or the backend connection has
\* ended, the worker eventually terminates with the flag false unless it
\* is suspended forwarding a frame to a full response channel whose
\* receiver is alive; the flag is false from the moment the loop is left.
C15_WorkerTerminatesUnlessSuspended ==
    /\ [](WorkerGone => ~backend_running)
    /\ (~handle_alive \/ target_state = "closed") ~>
          (WorkerTerminated \/ SuspendedOnLiveChannel)

\* C15 witness: the worker has terminated on the closure of the request
\* queue, after forwarding frames, with the backend connection still open.
C15_Witness ==
    /\ WorkerTerminated
    /\ ~handle_alive
    /\ target_state = "open"
    /\ written # <<>>
    /\ delivered[1] # <<>>

\* C16 as stated: the worker is never suspended in a forward; whenever a
\* request waits in the request queue while the worker is in its loop with
\* a current delivery channel, the worker can accept it.
C16_ForwardNeverSuspends ==
    (/\ wpc \in {"select", "deliver"}
     /\ current_response_sender # 0
     /\ request_queue # <<>>) => ENABLED WorkerRecvRequest

\* C16, amended: forwarding is a suspending send.  While the current
\* response channel is full and its receiver alive the worker holds the
\* frame and neither accepts a request nor reads a further frame; it
\* resumes once the receiver has taken a frame or is gone.  No frame is
\* discarded because the channel was full: a frame read for a stream and
\* not delivered found the receiver dropped.  At its select the worker can
\* accept a waiting request whatever the fill level of the channel.
C16_ForwardSuspendsOnFullChannel ==
    /\ wpc = "deliver" =>
         /\ wframe # 0
         /\ current_response_sender # 0
         /\ ~ ENABLED WorkerRecvRequest
         /\ ~ ENABLED WorkerReadFrame
    /\ SuspendedOnLiveChannel => ~ ENABLED Worker
    /\ (wpc = "deliver" /\ ~SuspendedOnLiveChannel) =>
         ENABLED WorkerDeliverResume
    /\ \A f \in Frames : Discarded(f) => ~rx_alive[read_epoch[f]]
    /\ (wpc = "select" /\ request_queue # <<>>) => ENABLED WorkerRecvRequest

\* C16 witness: the worker is suspended on a full channel with a live
\* receiver while a request waits in the request queue.
C16_Witness ==
    /\ SuspendedOnLiveChannel
    /\ request_queue # <<>>
    /\ backend_running

\* C17: the stream of a successful submit s, while its receiver is alive,
\* is open exactly until the worker accepts a later request or returns.
\* Once closed it stays closed and receives no further frame, so it yields
\* what is buffered and ends; at most one accepted request has an open
\* delivery channel.
C17_StreamOpenUntilNextRequestOrExit ==
    /\ [](\A s \in Sids :
            (call_state[s] = "ok" /\ rx_alive[s]) =>
               (tx_alive[s] <=> ~(last_accepted > s \/ wpc = "dead")))
    /\ [](Cardinality({s \in Sids : tx_alive[s] /\ s <= last_accepted}) <= 1)
    /\ [](\A s \in Sids :
            (call_state[s] = "ok" /\ rx_alive[s] /\ StreamEnded(s)) =>
               yielded[s] = delivered[s])
    /\ [][\A s \in Sids :
            (call_state[s] = "ok" /\ ~tx_alive[s]) =>
               /\ ~tx_alive'[s]
               /\ delivered'[s] = delivered[s]]_vars

\* C17 witness: stream 1 was closed by the acceptance of request 2 while
\* the worker runs on; its receiver is alive and a frame is still
\* buffered for it.
C17_Witness ==
    /\ call_state[1] = "ok"
    /\ rx_alive[1]
    /\ ~tx_alive[1]
    /\ last_accepted = 2
    /\ WorkerRunning
    /\ Buf(1) # <<>>

\* C18: a frame read while there is no current delivery channel is
\* recorded as stray and reaches no response stream, then or later.  It
\* was read before the first request was accepted or after the receiver
\* of the last accepted request was dropped.  The step that drops it
\* leaves the worker at its select with the flag, the delivery channel
\* and every response stream as they were.
C18_StrayFrameIsDroppedNotFatal ==
    /\ [](\A f \in stray :
            /\ f # wframe
            /\ \A s \in Sids : f \notin Range(delivered[s])
            /\ read_epoch[f] = 0 \/ ~rx_alive[read_epoch[f]])
    /\ [][stray' # stray =>
            /\ current_response_sender = 0
            /\ pipe # <<>>
            /\ stray' = stray \cup {Head(pipe)}
            /\ wpc = "select" /\ wpc' = "select"
            /\ backend_running' = backend_running
            /\ current_response_sender' = 0
            /\ delivered' = delivered
            /\ tx_alive' = tx_alive]_vars

\* C18 witness: one frame was dropped before the first request and one
\* after the stream of request 1 had been abandoned; the worker went on to
\* accept request 2 and the flag is still true.
C18_Witness ==
    /\ \E f \in stray : read_epoch[f] = 0
    /\ \E f \in stray : read_epoch[f] = 1
    /\ last_accepted = 2
    /\ WorkerRunning
    /\ backend_running

\* C19: the i-th submit is logged outbound as request number i, failed
\* submits included.  Every frame pulled from a decorated stream appends,
\* in the step that pulls it, one inbound entry carrying the identifier
\* logged outbound for the submit that created the stream and the number
\* following that of the previous inbound entry; nothing else appends an
\* inbound entry.
C19_LoggerNumbersRequestsAndResponses ==
    /\ [](/\ Len(log_out) = request_count
          /\ \A i \in 1..Len(log_out) :
               /\ log_out[i].n = i
               /\ log_out[i].body = <<"request", request_frame[i]>>
          /\ Len(log_in) = response_count
          /\ \A i \in 1..Len(log_in) :
               /\ log_in[i].n = i
               /\ \E s \in 1..request_count :
                    /\ call_state[s] = "ok"
                    /\ log_in[i].cmd = log_out[s].cmd
          /\ \A s \in Sids : InboundOf(s, Len(log_in)) = n_pulled[s])
    /\ [][/\ \A s \in Sids :
               n_pulled'[s] # n_pulled[s] =>
                  /\ n_pulled'[s] = n_pulled[s] + 1
                  /\ Len(log_in') = Len(log_in) + 1
                  /\ log_in'[Len(log_in')].cmd = log_out[s].cmd
                  /\ log_in'[Len(log_in')].n = Len(log_in) + 1
                  /\ SubSeq(log_in', 1, Len(log_in)) = log_in
          /\ log_in' # log_in =>
               \E s \in Sids : n_pulled'[s] # n_pulled[s]
          /\ request_count' # request_count =>
               /\ request_count' = request_count + 1
               /\ log_out' = Append(log_out, log_out'[request_count'])]_vars

\* C19 witness: three inbound entries over the streams of two submits,
\* the first of them for the second submit (its frame was pulled before
\* the buffered frame of the first stream).
C19_Witness ==
    /\ request_count = 2
    /\ Len(log_in) = 3
    /\ log_in[1].cmd = log_out[2].cmd
    /\ \E i \in 2..3 : log_in[i].cmd = log_out[1].cmd

\* The frames written to the client, in the order of the writes.
ClientOutFrames == [i \in 1..Len(client_out) |-> client_out[i][2]]

\* C20: the frames written to the client are frames the worker read from
\* the backend, each written at most once and in the order in which the
\* worker read them (frames are numbered in that order); the output only
\* grows at its end.
C20_ClientOutputIsSubsequenceOfBackendFrames ==
    /\ [](/\ Increasing(ClientOutFrames)
          /\ \A i \in 1..Len(client_out) :
               /\ client_out[i][2] \in 1..emitted
               /\ client_out[i][2] \notin Range(pipe)
               /\ read_epoch[client_out[i][2]] >= 1
               /\ client_out[i][2] \in Range(Pulled(client_out[i][1])))
    /\ [][client_out' # client_out =>
            /\ Len(client_out') = Len(client_out) + 1
            /\ SubSeq(client_out', 1, Len(client_out)) = client_out]_vars

\* C20 witness: request 2 was submitted while stream 1 was undrained; the
\* client has received a frame of stream 1 and then, on stream 2, a frame
\* the backend had emitted before request 2 was written.
C20_Witness ==
    /\ Len(client_out) >= 2
    /\ client_out[1][1] = 1
    /\ \E i \in 2..Len(client_out) :
         /\ client_out[i][1] = 2
         /\ emit_epoch[client_out[i][2]] = 1

\* C21: once the worker has returned, no sender of a response channel is
\* left: every stream of a successful submit ends after the frames
\* buffered for it, and the stream of a request that was never accepted
\* carries no frame at all.  The forwarder of handle_connection therefore
\* comes to hold no stream of the dead worker: every such stream is
\* eventually dropped, after its end or with the forwarder.
C21_StreamsOfDeadWorkerEnd ==
    /\ [](wpc = "dead" =>
            /\ request_queue = <<>>
            /\ \A s \in Sids :
                 /\ call_state[s] # "pending" => ~tx_alive[s]
                 /\ (call_state[s] = "ok" /\ s > last_accepted) =>
                       delivered[s] = <<>>
            /\ fpc = "drain" =>
                 (Buf(fcur) # <<>> \/ ENABLED FwdStreamEnd))
    /\ [][wpc = "dead" => delivered' = delivered]_vars
    /\ (wpc = "dead") ~>
          (/\ fpc # "drain"
           /\ \A s \in Sids : call_state[s] = "ok" => ~rx_alive[s])

\* C21 witness: the worker returned while request 2, submitted
\* successfully, was still in the request queue; the forwarder polls the
\* stream of request 2, which has ended without a frame.
C21_Witness ==
    /\ wpc = "dead"
    /\ call_state[2] = "ok"
    /\ last_accepted = 1
    /\ fpc = "drain"
    /\ fcur = 2
    /\ rx_alive[2]
    /\ StreamEnded(2)
    /\ delivered[2] = <<>>

====
